---------------------------- MODULE Spec2Model ----------------------------
(***************************************************************************)
(* State-machine model of the sliding puzzle component                      *)
(* (src/webprog/src/SlidingPuzzle.js) under a React 18 root.                *)
(*                                                                         *)
(* The variables size, tiles, moves, time, running, message and highScores *)
(* are the state of the last commit: what is on the screen and what the    *)
(* handlers of that render read through their closure.                     *)
(*                                                                         *)
(* Updates made in a click or keydown handler are rendered and committed   *)
(* before the event ends; the passive effects of such a commit (lines      *)
(* 18-46) run at its end.  Updates made in an effect or in the callback of *)
(* the interval are rendered by a task of their own, later; the passive    *)
(* effects of that commit run in a further task, or before the next        *)
(* render, whichever comes first.  An update made in a handler while       *)
(* earlier updates wait for their task is rendered at once, on top of the  *)
(* state on the screen, and is applied again, in the order of the calls,   *)
(* when the waiting updates are rendered.  So next to the state on the     *)
(* screen the model keeps `queued`, the state all updates made so far lead *)
(* to, `scheduled`, whether a task has to render it, and `passive`, the    *)
(* effects that have not run yet.                                          *)
(*                                                                         *)
(* A handler whose updates all set the value their state has, made while   *)
(* neither fiber of the component carries a lane, schedules no render:     *)
(* the updates bail out and stay in their queues (`bailed`), the effects   *)
(* still scheduled do not run.  The next render made by a task skips such  *)
(* an update and is followed at once by the render of its lane, which      *)
(* runs the effects of the commit before the task ends.  `altLanes` tells  *)
(* whether the fiber that left the screen at the last commit still carries *)
(* a lane: it does after a render that changed a state, and then such a    *)
(* handler gets a render (and the effects still scheduled run with it).    *)
(*                                                                         *)
(* The keydown listener reads the closure of the render in which the       *)
(* effect of lines 32-46 last ran (keyEnv); the interval of line 25 exists *)
(* from a run of the effect of lines 23-30 with running true to its next   *)
(* run.                                                                    *)
(*                                                                         *)
(* JavaScript arrays are 0-based; a board is modelled as a TLA+ sequence   *)
(* and At(arr, i) reads the element at 0-based index i.                    *)
(***************************************************************************)
EXTENDS Integers, Sequences, FiniteSets, TLC

VARIABLES
    size,        \* useState(4), line 8
    tiles,       \* useState([]), line 9
    moves,       \* useState(0), line 10
    time,        \* useState(0), line 11
    running,     \* useState(false), line 12
    message,     \* useState(""), line 13: <<>> is "", <<m, t>> the win text
    highScores,  \* useState({3: null, 4: null, 5: null}), line 14
    queued,      \* tiles, moves, time, running and message once every
                 \* update made so far is rendered
    fresh,       \* the array of queued.tiles is another object than the
                 \* array of tiles
    scheduled,   \* updates of an effect or of the interval wait for their
                 \* render
    passive,     \* the effects (lines 18-46) scheduled by the last commit
                 \* that have not run yet
    interval,    \* the interval of line 25 is set
    keyEnv,      \* the closure of the registered keydown listener
    altLanes,    \* the fiber that is not on the screen still carries the
                 \* lanes of the render before the last one
    bailed,      \* an update that set a state to the value it had waits in
                 \* its queue with the lane of a click: no render was
                 \* scheduled for it
    accepted,    \* history: moves accepted since the last start, restart or
                 \* change of dimension
    swaps,       \* history: moves accepted since the component was constructed
    bestReported, \* history: per dimension, least move count reported by a
                 \* win on a board of that dimension
    races,       \* history: events handled and callbacks of the interval
                 \* run while a task of React was waiting
    changed,     \* history: a level button has changed the size and the
                 \* reset that follows it is not rendered yet
    reach,       \* SpecReach only: codes of the boards found reachable so far
    frontier,    \* SpecReach only: the reachable boards not yet expanded
    pc           \* SpecGen only: where the loop of shuffleToSolvable stands

\* the variables of the reachability search and of the generator run on its
\* own, constant in Spec
search == <<reach, frontier, pc>>

\* what React keeps next to the state on the screen
react == <<queued, fresh, scheduled, passive, interval, keyEnv, altLanes,
           bailed>>

history == <<accepted, swaps, bestReported, races, changed>>

vars == <<size, tiles, moves, time, running, message, highScores, react,
          history, search>>

----------------------------------------------------------------------------
(* Bounds of the model *)

\* Math.random() returns r / RandomScale for an integer r in
\* 0..RandomScale-1.
RandomScale == 1000
\* In a call of shuffleToSolvable by the component, Math.random() is free in
\* the first FreeDraws Fisher-Yates iterations of each run of the do-while
\* body ...
FreeDraws == 2
\* ... where it returns RandomLow / RandomScale or the greatest value,
\* (RandomScale - 1) / RandomScale; in the other iterations it returns the
\* greatest value, for which j = i.
RandomLow == 875
\* The do-while body runs at most MaxTries times in such a call.
MaxTries == 2
\* The generator is run on its own (SpecGen) for the dimensions 1 to
\* MaxGenDim.
MaxGenDim == 5
GenDims == 1..MaxGenDim
\* In that run Math.random() is free in every Fisher-Yates iteration for
\* the dimensions 1 and 2 (none and three iterations), in the first
\* GenFree3 iterations for dimension 3 ...
GenFree3 == 2
\* ... and in the first GenFreeWide iterations for the dimensions from 4
\* on; in the other iterations it returns the greatest value, for which
\* j = i.  An array the loop of lines 60-63 can only reach with other
\* draws is not among the arrays an iteration of the model ends with.
GenFreeWide == 1
GenFree == [n \in GenDims |->
               IF n <= 2 THEN n * n - 1
               ELSE IF n = 3 THEN GenFree3
               ELSE GenFreeWide]
\* ... and takes there the GenGrid values 0, 1/GenGrid, 2/GenGrid, ... or
\* the greatest value.
GenGrid == 10
\* At most MaxMoves moves are accepted after the component is constructed.
MaxMoves == 2
\* The callback of the interval runs only while the time the queued updates
\* lead to is below MaxTime.
MaxTime == 1
\* At most MaxRaces times after the component is constructed, updates of a
\* handler are rendered or a callback of the interval runs while a task of
\* React (a render or a run of effects) is waiting.
MaxRaces == 2

----------------------------------------------------------------------------
(* Program constants *)

\* the value null of the highScores entries (line 14)
null == -1
\* what reading an index outside the array or an empty slot gives (line 143)
undefined == -2
\* an empty slot, left by an assignment beyond the end of the array (line 143)
hole == -3
\* the dimensions offered by the level buttons (lines 203, 209, 215)
Sizes == {3, 4, 5}
\* the keys of keyMap (lines 36-39) and one key that is not in it
Keys == {"ArrowUp", "ArrowDown", "ArrowLeft", "ArrowRight", "Enter"}

----------------------------------------------------------------------------
(* Helpers, lines 48-99 and 122-136 *)

At(arr, i) == arr[i + 1]

\* arr[i] where i may lie outside the array or on an empty slot
Read(arr, i) ==
    IF i >= 0 /\ i < Len(arr) /\ arr[i + 1] # hole THEN arr[i + 1]
    ELSE undefined

\* arr.indexOf(v): first 0-based index holding v, -1 when absent
indexOf(arr, v) ==
    IF \E i \in 1..Len(arr) : arr[i] = v
    THEN (CHOOSE i \in 1..Len(arr) :
              arr[i] = v /\ \A k \in 1..(i - 1) : arr[k] # v) - 1
    ELSE -1

Max(a, b) == IF a >= b THEN a ELSE b

\* [arr[i], arr[j]] = [arr[j], arr[i]]: both cells are read, then arr[i] and
\* arr[j] are assigned in that order; an assignment beyond the end makes the
\* array longer and leaves empty slots in between
Swap(arr, i, j) ==
    [k \in 1..Max(Len(arr), Max(i, j) + 1) |->
        IF k = j + 1 THEN Read(arr, i)
        ELSE IF k = i + 1 THEN Read(arr, j)
        ELSE IF k <= Len(arr) THEN arr[k]
        ELSE hole]

makeSolved(n) == [k \in 1..(n * n) |-> k % (n * n)]

\* mutant: the cells compared with their 0-based index (blank first)
isSolvedBlankFirst(arr) ==
    /\ \A i \in 1..(Len(arr) - 1) : At(arr, i) = i
    /\ Len(arr) >= 1
    /\ At(arr, 0) = 0

isSolved(arr) ==
    /\ \A i \in 0..(Len(arr) - 2) : At(arr, i) = i + 1
    /\ Len(arr) >= 1
    /\ At(arr, Len(arr) - 1) = 0

\* arr.filter skips the empty slots and keeps undefined (undefined !== 0);
\* a comparison nums[i] > nums[j] with undefined on either side is false
inversionCount(arr) ==
    LET nums == SelectSeq(arr, LAMBDA v : v # 0 /\ v # hole)
    IN  Cardinality({p \in (1..Len(nums)) \X (1..Len(nums)) :
                        /\ p[1] < p[2]
                        /\ nums[p[1]] # undefined
                        /\ nums[p[2]] # undefined
                        /\ nums[p[1]] > nums[p[2]]})

\* mutant: the even-grid rule read with the blank's row counted from the top
isSolvableRowFromTop(arr, n) ==
    LET inv == inversionCount(arr)
    IN  IF n % 2 = 1
        THEN inv % 2 = 0
        ELSE LET blankIndex == indexOf(arr, 0)
                 rowFromTop == (blankIndex \div n) + 1
             IN  IF rowFromTop % 2 = 0 THEN inv % 2 = 1 ELSE inv % 2 = 0

isSolvable(arr, n) ==
    LET inv == inversionCount(arr)
    IN  IF n % 2 = 1
        THEN inv % 2 = 0
        ELSE LET blankIndex == indexOf(arr, 0)
                 rowFromTop == (blankIndex \div n) + 1
                 rowFromBottom == n - rowFromTop + 1
             IN  IF rowFromBottom % 2 = 0 THEN inv % 2 = 1 ELSE inv % 2 = 0

\* Math.floor(Math.random() * (i + 1)) of line 61, for Math.random()
\* returning r / RandomScale
RandomIndex(i, r) == (r * (i + 1)) \div RandomScale

\* The Fisher-Yates loop of lines 60-63 from iteration i downwards, with
\* Math.random() returning the values of the sequence rs one after the
\* other: the array it ends with and the values not yet used.
RECURSIVE FisherYates(_, _, _)
FisherYates(arr, i, rs) ==
    IF i <= 0 THEN [arr |-> arr, rs |-> rs]
    ELSE FisherYates(Swap(arr, i, RandomIndex(i, Head(rs))), i - 1, Tail(rs))

\* mutant: the loop condition with && for ||
LoopAgainBoth(arr, n) == ~isSolvable(arr, n) /\ isSolved(arr)

\* mutant: the negation put on isSolved as well
LoopAgainUnlessSolved(arr, n) == ~isSolvable(arr, n) \/ ~isSolved(arr)

\* mutant: the isSolved test left out
LoopAgainUnsolvable(arr, n) == ~isSolvable(arr, n)

LoopAgain(arr, n) == ~isSolvable(arr, n) \/ isSolved(arr)

\* shuffleToSolvable(n), lines 54-66, with Math.random() returning the
\* values of rs: the do-while loop runs its body again while LoopAgain
\* holds of the shuffled array
RECURSIVE shuffleToSolvable(_, _)
shuffleToSolvable(n, rs) ==
    LET s == FisherYates(makeSolved(n), n * n - 1, rs)
    IN  IF LoopAgain(s.arr, n) THEN shuffleToSolvable(n, s.rs) ELSE s.arr

\* the call returns before the values of rs are used up
RECURSIVE Returns(_, _)
Returns(n, rs) ==
    /\ Len(rs) >= n * n - 1
    /\ LET s == FisherYates(makeSolved(n), n * n - 1, rs)
       IN  ~LoopAgain(s.arr, n) \/ Returns(n, s.rs)

\* the values k/grid of Math.random(), k in 0..grid-1, and the greatest one
GridValues(grid) ==
    {(k * RandomScale) \div grid : k \in 0..(grid - 1)}
        \cup {RandomScale - 1}

\* the sequences of len values of Math.random() of which the first `free`
\* are in vals and the others are the greatest value
Draws(len, free, vals) ==
    {[i \in 1..len |-> IF i \in DOMAIN f THEN f[i] ELSE RandomScale - 1] :
        f \in [1..(IF free < len THEN free ELSE len) -> vals]}

\* the values of Math.random() in k runs of the do-while body
RECURSIVE Runs(_, _)
Runs(n, k) ==
    IF k <= 1 THEN Draws(n * n - 1, FreeDraws, {RandomLow, RandomScale - 1})
    ELSE {a \o b : a \in Draws(n * n - 1, FreeDraws,
                                {RandomLow, RandomScale - 1}),
                   b \in Runs(n, k - 1)}

\* the values Math.random() takes in a call of shuffleToSolvable(n) by the
\* component, as far as the model draws them
RandomRuns(n) == UNION {Runs(n, k) : k \in 1..MaxTries}

\* the boards shuffleToSolvable(n) returns for those values
Generated ==
    [n \in Sizes |->
        {shuffleToSolvable(n, rs) : rs \in {x \in RandomRuns(n) : Returns(n, x)}}]

\* JavaScript's a % b for b > 0: the result has the sign of a
Rem(a, b) == IF a >= 0 THEN a % b ELSE -((-a) % b)

indexToPos(idx, sz) == [r |-> idx \div sz, c |-> Rem(idx, sz)]

posToIndex(r, c, sz) == r * sz + c

Abs(x) == IF x < 0 THEN -x ELSE x

\* mutant: only the column distance is looked at, within one row
canSwapSameRow(i, j, sz) ==
    LET a == indexToPos(i, sz)
        b == indexToPos(j, sz)
    IN  a.r = b.r /\ Abs(a.c - b.c) = 1

\* mutant: adjacency taken on the flat index, without the row check
canSwapFlat(i, j, sz) == Abs(i - j) = 1 \/ Abs(i - j) = sz

canSwap(i, j, sz) ==
    LET a == indexToPos(i, sz)
        b == indexToPos(j, sz)
        dr == Abs(a.r - b.r)
        dc == Abs(a.c - b.c)
    IN  dr + dc = 1

----------------------------------------------------------------------------
(* Renders, commits and effects *)

\* the cells that updates of an effect or of the interval reach, as the
\* last commit left them
Rendered ==
    [tiles |-> tiles, moves |-> moves, time |-> time, running |-> running,
     message |-> message]

\* what the functions of the render with size n, cells c and best scores
\* hs read through their closure
Closure(n, c, hs) ==
    [on |-> TRUE, size |-> n, tiles |-> c.tiles, running |-> c.running,
     moves |-> c.moves, time |-> c.time, highScores |-> hs]

\* the render that created the button handlers: the last commit
CurEnv == Closure(size, Rendered, highScores)

\* resetBoard(n), lines 101-107, where b is the board shuffleToSolvable(n)
\* returned: the cells its five updates lead to
resetBoard(b) ==
    [tiles |-> b, moves |-> 0, time |-> 0, message |-> <<>>,
     running |-> FALSE]

\* the boards the call of resetBoard(n) in the effect of lines 18-21 can
\* set, when the effect runs (<<>> stands for no call)
EffectBoards(runs, n) == IF runs THEN Generated[n] ELSE {<<>>}

\* no task of React is waiting
Quiet == ~scheduled /\ passive = {}

\* the bound on the races leaves room for an event or a callback
Handled == Quiet \/ races < MaxRaces

\* an event or a callback is handled now, and counted if a task is waiting
Raced ==
    /\ Handled
    /\ races' = IF Quiet THEN races ELSE races + 1

\* the updates of a handler change a state: setTiles always does, its
\* argument is a new array
Differs(c, n, hs, tilesSet) ==
    tilesSet \/ c # Rendered \/ n # size \/ hs # highScores

\* Every update of a handler bails out when it is made: neither fiber of
\* the component carries a lane and each update sets the value its state
\* has.  The updates stay in their queues and no render is scheduled.
Eager(c, n, hs, tilesSet) ==
    ~scheduled /\ ~altLanes /\ ~Differs(c, n, hs, tilesSet)

\* The updates a handler made are rendered: c are the cells they give on top
\* of the last commit, q the cells they give on top of the queued updates, n
\* and hs the size and the best scores they give; tilesSet tells whether
\* setTiles was among them.
\* Before the render the effects still scheduled run, with the closure of
\* the last commit; after the commit the effects whose dependencies have
\* changed run, with the closure of this render.  The updates of
\* resetBoard(size) in the effect of lines 18-21 are queued for a later
\* render.  The fiber that leaves the screen keeps the lanes it carried,
\* less the lane of this render when the render changed no state.
\* When the updates bail out (Eager) nothing is rendered and no effect
\* runs.
Commit(c, q, n, hs, tilesSet) ==
    IF Eager(c, n, hs, tilesSet)
    THEN /\ bailed' = TRUE
         /\ UNCHANGED <<size, tiles, moves, time, running, message,
                        highScores, queued, fresh, scheduled, passive,
                        interval, keyEnv, altLanes, races, search>>
    ELSE
    \E b1 \in EffectBoards("size" \in passive, size) :
    \E b2 \in EffectBoards(n # size, n) :
        /\ size' = n
        /\ tiles' = c.tiles
        /\ moves' = c.moves
        /\ time' = c.time
        /\ running' = c.running
        /\ message' = c.message
        /\ highScores' = hs
        /\ queued' = IF n # size THEN resetBoard(b2)
                     ELSE IF "size" \in passive THEN resetBoard(b1)
                     ELSE q
        /\ fresh' = IF n # size \/ "size" \in passive THEN TRUE
                    ELSE IF tilesSet THEN FALSE
                    ELSE fresh
        /\ scheduled' = (scheduled \/ n # size \/ "size" \in passive)
        /\ passive' = {}
        /\ interval' = IF c.running # running THEN c.running
                       ELSE IF "timer" \in passive THEN running
                       ELSE interval
        /\ keyEnv' = IF tilesSet \/ c.running # running
                     THEN Closure(n, c, hs)
                     ELSE IF "key" \in passive THEN CurEnv
                     ELSE keyEnv
        /\ altLanes' = (Differs(c, n, hs, tilesSet) \/ scheduled
                           \/ "size" \in passive)
        /\ bailed' = FALSE
        /\ Raced
        /\ UNCHANGED search

\* The task that runs the effects scheduled by the last commit: the effect
\* of lines 18-21 calls resetBoard(size), the effect of lines 23-30 clears
\* the interval and sets it again if running, the effect of lines 32-46
\* replaces the keydown listener.
Effects ==
    /\ passive # {}
    /\ \E b1 \in EffectBoards("size" \in passive, size) :
          /\ queued' = IF "size" \in passive THEN resetBoard(b1) ELSE queued
          /\ fresh' = IF "size" \in passive THEN TRUE ELSE fresh
          /\ scheduled' = (scheduled \/ "size" \in passive)
    /\ passive' = {}
    /\ interval' = IF "timer" \in passive THEN running ELSE interval
    /\ keyEnv' = IF "key" \in passive THEN CurEnv ELSE keyEnv
    /\ altLanes' = (altLanes \/ "size" \in passive)
    /\ UNCHANGED <<size, tiles, moves, time, running, message, highScores,
                   bailed, history, search>>

\* The task that renders the updates made in effects and in callbacks of
\* the interval, together with the updates handlers made after them.  The
\* effects still scheduled run before it; the effects whose dependencies
\* this commit changes are scheduled for a later task.
\* An update that bailed out is skipped by this render, for its lane is
\* not rendered, and leaves its lane on the root: the render of that lane
\* follows the commit in the same task, runs the effects just scheduled
\* with the closure of this render, and changes no state.
Render ==
    /\ scheduled
    /\ \E b1 \in EffectBoards("size" \in passive, size) :
       \E q \in {IF "size" \in passive THEN resetBoard(b1) ELSE queued} :
       \E due \in {(IF q.running # running THEN {"timer"} ELSE {})
                      \cup (IF fresh \/ "size" \in passive
                               \/ q.running # running
                            THEN {"key"} ELSE {})} :
          /\ tiles' = q.tiles
          /\ moves' = q.moves
          /\ time' = q.time
          /\ running' = q.running
          /\ message' = q.message
          /\ queued' = q
          /\ passive' = IF bailed THEN {} ELSE due
          /\ interval' = IF bailed /\ "timer" \in due THEN q.running
                         ELSE IF "timer" \in passive THEN running
                         ELSE interval
          /\ keyEnv' = IF bailed /\ "key" \in due
                       THEN Closure(size, q, highScores)
                       ELSE IF "key" \in passive THEN CurEnv
                       ELSE keyEnv
          /\ altLanes' = (~bailed /\ (fresh \/ "size" \in passive
                                         \/ q # Rendered))
    /\ fresh' = FALSE
    /\ scheduled' = FALSE
    /\ bailed' = FALSE
    /\ changed' = FALSE
    /\ UNCHANGED <<size, highScores, accepted, swaps, bestReported, races,
                   search>>

\* the callback of the interval, line 25: setTime(t => t + 1), rendered by
\* a later task
Tick ==
    /\ interval
    /\ queued.time < MaxTime
    /\ queued' = [queued EXCEPT !.time = @ + 1]
    /\ scheduled' = TRUE
    /\ altLanes' = TRUE
    /\ Raced
    /\ UNCHANGED <<size, tiles, moves, time, running, message, highScores,
                   fresh, passive, interval, keyEnv, bailed, accepted,
                   swaps, bestReported, changed, search>>

Min(a, b) == IF a = null THEN b ELSE IF b < a THEN b ELSE a

----------------------------------------------------------------------------
(* onWin, lines 166-175 *)

finalMoves(env) == env.moves + 1

onWinMessage(env) == <<finalMoves(env), env.time>>

onWinHighScores(env, prev) ==
    IF env.highScores[env.size] = null
          \/ finalMoves(env) < env.highScores[env.size]
    THEN [prev EXCEPT ![env.size] = finalMoves(env)]
    ELSE prev

\* mutant: setRunning(false) of line 167 left out
onWinKeepRunning(env, c) ==
    [c EXCEPT !.message = onWinMessage(env)]

\* the cells setRunning(false) and setMessage(...) lead to from c
onWin(env, c) ==
    [c EXCEPT !.running = FALSE, !.message = onWinMessage(env)]

----------------------------------------------------------------------------
(* handleTileClick, lines 138-148, run with the closure env *)

\* the handler returns without an update: nothing is rendered
Rejected == UNCHANGED vars

\* the dimension of a solved board
Dim(arr) == CHOOSE d \in Sizes : d * d = Len(arr)

\* lines 140-147: the swap, once the running check has passed
trySwap(env, i) ==
    \E blank \in {indexOf(env.tiles, 0)} :
        IF canSwap(i, blank, env.size)
        THEN \E next \in {Swap(env.tiles, i, blank)} :
             LET moved(c) == [c EXCEPT !.tiles = next, !.moves = @ + 1]
                 update(c) == IF isSolved(next) THEN onWin(env, moved(c))
                              ELSE moved(c)
             IN  /\ swaps < MaxMoves
                 /\ swaps' = swaps + 1
                 /\ accepted' = accepted + 1
                 /\ bestReported' =
                       IF isSolved(next)
                       THEN [bestReported EXCEPT
                                ![Dim(next)] = Min(@, finalMoves(env))]
                       ELSE bestReported
                 /\ UNCHANGED changed
                 /\ Commit(update(Rendered), update(queued), size,
                           IF isSolved(next)
                           THEN onWinHighScores(env, highScores)
                           ELSE highScores,
                           TRUE)
        ELSE Rejected

handleTileClick(env, i) ==
    IF ~env.running THEN Rejected ELSE trySwap(env, i)

\* mutant: "up" and "down" exchanged
moveTargetFlipped(pos, direction) ==
    [r |-> IF direction = "up" THEN pos.r + 1
           ELSE IF direction = "down" THEN pos.r - 1 ELSE pos.r,
     c |-> IF direction = "left" THEN pos.c - 1
           ELSE IF direction = "right" THEN pos.c + 1 ELSE pos.c]

(* moveByDirection, lines 150-164 *)
\* (\E over a one-element set names a value, as a const declaration does)
moveTarget(pos, direction) ==
    [r |-> IF direction = "up" THEN pos.r - 1
           ELSE IF direction = "down" THEN pos.r + 1 ELSE pos.r,
     c |-> IF direction = "left" THEN pos.c - 1
           ELSE IF direction = "right" THEN pos.c + 1 ELSE pos.c]

moveByDirection(env, direction) ==
    \E blank \in {indexOf(env.tiles, 0)} :
    \E pos \in {indexToPos(blank, env.size)} :
    \E target \in {moveTarget(pos, direction)} :
        IF target.r < 0 \/ target.r >= env.size
             \/ target.c < 0 \/ target.c >= env.size
        THEN Rejected
        ELSE \E targetIdx \in {posToIndex(target.r, target.c, env.size)} :
                 handleTileClick(env, targetIdx)

(* keyMap, lines 35-40; "" stands for undefined *)
keyMap(key) ==
    CASE key = "ArrowUp" -> "down"
      [] key = "ArrowDown" -> "up"
      [] key = "ArrowLeft" -> "right"
      [] key = "ArrowRight" -> "left"
      [] OTHER -> ""

(* onKey, lines 33-42, of the listener registered with the closure env *)
onKey(env, key) ==
    IF ~env.running THEN Rejected
    ELSE IF keyMap(key) # "" THEN moveByDirection(env, keyMap(key))
    ELSE Rejected

----------------------------------------------------------------------------
(* startGame and restart, lines 109-120 *)

\* mutant: the isSolved test of line 110 left out, a new board every time
startGameAlwaysNew ==
    \E b \in Generated[size] :
        LET update(c) ==
                [c EXCEPT !.tiles = b, !.moves = 0, !.time = 0,
                          !.message = <<>>, !.running = TRUE]
        IN  /\ accepted' = 0
            /\ UNCHANGED <<swaps, bestReported, changed>>
            /\ Commit(update(Rendered), update(queued), size, highScores,
                      TRUE)

startGame ==
    \E b \in (IF isSolved(tiles) THEN Generated[size] ELSE {tiles}) :
        LET update(c) ==
                [c EXCEPT !.tiles = IF isSolved(tiles) THEN b ELSE @,
                          !.moves = 0, !.time = 0, !.message = <<>>,
                          !.running = TRUE]
        IN  /\ accepted' = 0
            /\ UNCHANGED <<swaps, bestReported, changed>>
            /\ Commit(update(Rendered), update(queued), size, highScores,
                      isSolved(tiles))

\* resetBoard(size) then setRunning(true): the later setRunning wins
restart ==
    \E b \in Generated[size] :
        LET update(c) == [resetBoard(b) EXCEPT !.running = TRUE]
        IN  /\ accepted' = 0
            /\ UNCHANGED <<swaps, bestReported, changed>>
            /\ Commit(update(Rendered), update(queued), size, highScores,
                      TRUE)

----------------------------------------------------------------------------
(* Events *)

\* a level button (lines 201-218): setSize(n).  With the size it has, the
\* button changes no state of the component: the update bails out when it
\* is made, or it is rendered without a change and the effects still
\* scheduled run before the event ends.
SetSize(n) ==
    /\ accepted' = IF n = size THEN accepted ELSE 0
    /\ changed' = (changed \/ n # size)
    /\ UNCHANGED <<swaps, bestReported>>
    /\ Commit(Rendered, queued, n, highScores, FALSE)

\* onClick of the START button (line 243)
Start == startGame

\* onClick of the RESTART button (line 246)
Restart == restart

\* the indices for which tiles.map (line 257) renders a button: all but the
\* empty slots
Buttons == {idx \in 0..(Len(tiles) - 1) : tiles[idx + 1] # hole}

\* onClick of the tile button at index idx (line 260)
Click(idx) == handleTileClick(CurEnv, idx)

\* a keydown event (line 43): no listener before the effect of lines 32-46
\* has run
KeyDown(key) ==
    IF ~keyEnv.on THEN UNCHANGED vars ELSE onKey(keyEnv, key)

\* the first render is committed and its effects are scheduled
InitReact ==
    /\ queued = Rendered
    /\ fresh = FALSE
    /\ scheduled = FALSE
    /\ passive = {"size", "timer", "key"}
    /\ interval = FALSE
    /\ keyEnv = [CurEnv EXCEPT !.on = FALSE]
    /\ altLanes = FALSE
    /\ bailed = FALSE

InitHistory ==
    /\ accepted = 0
    /\ swaps = 0
    /\ bestReported = [d \in Sizes |-> null]
    /\ races = 0
    /\ changed = FALSE

Init ==
    /\ size = 4
    /\ tiles = <<>>
    /\ moves = 0
    /\ time = 0
    /\ running = FALSE
    /\ message = <<>>
    /\ highScores = [d \in Sizes |-> null]
    /\ InitReact
    /\ InitHistory
    /\ reach = {}
    /\ frontier = <<>>
    /\ pc = "idle"

Next ==
    \/ Effects
    \/ Render
    \/ Tick
    \/ \E n \in Sizes : SetSize(n)
    \/ Start
    \/ Restart
    \/ \E idx \in Buttons : Click(idx)
    \/ \E key \in Keys : KeyDown(key)

Spec == Init /\ [][Next]_vars

----------------------------------------------------------------------------
(* Properties of the component, checked under Spec *)

Arrows == {"ArrowUp", "ArrowDown", "ArrowLeft", "ArrowRight"}

\* cells i and j of a board of dimension n are orthogonally adjacent: row
\* distance plus column distance is exactly 1
Adjacent(i, j, n) ==
    LET ri == i \div n
        rj == j \div n
        ci == i % n
        cj == j % n
        rd == IF ri >= rj THEN ri - rj ELSE rj - ri
        cd == IF ci >= cj THEN ci - cj ELSE cj - ci
    IN  rd + cd = 1

\* new is old with exactly the cells at i and k exchanged
Exchanged(old, new, i, k) ==
    /\ Len(new) = Len(old)
    /\ new[i + 1] = old[k + 1]
    /\ new[k + 1] = old[i + 1]
    /\ \A j \in 1..Len(old) : (j # i + 1 /\ j # k + 1) => new[j] = old[j]

IsPermutation(arr, n) ==
    /\ Len(arr) = n * n
    /\ \A v \in 0..(n * n - 1) : \E i \in 1..Len(arr) : arr[i] = v

\* this step is an accepted move that produces the solved board
WinningMove == swaps' = swaps + 1 /\ isSolved(tiles')

\* C1: an accepted move that produces the solved board sets running to
\* false and shows a win message whose move count is the number of moves
\* accepted since the move counter was last reset, which is the value of
\* the move counter after the move.
C1_WinReportsAcceptedMoves ==
    [][WinningMove =>
          /\ ~running'
          /\ message' # <<>>
          /\ message'[1] = accepted'
          /\ message'[1] = moves'
      ]_vars

\* a board as the generator returns it for dimension n
FreshBoard(arr, n) ==
    /\ IsPermutation(arr, n)
    /\ isSolvable(arr, n)
    /\ ~isSolved(arr)

\* for each dimension: every board the generator returns is a permutation,
\* solvable and not solved
AllFresh == [n \in Sizes |-> \A b \in Generated[n] : FreshBoard(b, n)]

\* arr is a board the generator returns for dimension n, hence a
\* permutation that is solvable and not solved
NewBoard(arr, n) == arr \in Generated[n] /\ AllFresh[n]

\* C3: every board returned by the generator for the dimensions 3, 4 and 5
\* (the boards restart and start from a solved board set) is a permutation
\* of 0..n*n-1, satisfies isSolvable and is not the solved board; so is the
\* board that the reset after the first render or after a change of
\* dimension has queued, for the dimension then current.
C3_GeneratedBoards ==
    /\ \A n \in Sizes : AllFresh[n]
    /\ fresh => FreshBoard(queued.tiles, size)

\* EASY was pressed after a win of a 4x4 game: the reset has queued a board
\* of dimension 3
C3_Witness ==
    /\ fresh
    /\ changed
    /\ size = 3
    /\ Len(queued.tiles) = 9
    /\ highScores[4] # null

\* C4: while running, a click on a cell orthogonally adjacent to the blank
\* is accepted (up to the model's bounds on the accepted moves and on the
\* races), and every state it leads to has exactly that cell and the blank
\* exchanged, every other cell unchanged and the move counter greater by
\* exactly 1.
C4_AdjacentMoveSwaps ==
    (running /\ swaps < MaxMoves /\ Handled) =>
        \A blank \in {indexOf(tiles, 0)} :
            \A idx \in Buttons :
                Adjacent(idx, blank, size) =>
                    /\ ENABLED (Click(idx) /\ tiles' # tiles)
                    /\ ~ENABLED (/\ Click(idx)
                                 /\ ~(/\ Exchanged(tiles, tiles', idx, blank)
                                      /\ tiles'[idx + 1] = 0
                                      /\ moves' = moves + 1))

\* a running 4x4 game in which two moves were accepted
C4_Witness ==
    /\ size = 4
    /\ IsPermutation(tiles, size)
    /\ running
    /\ moves = 2
    /\ accepted = 2

\* C5: a click on a cell that is not orthogonally adjacent to the blank
\* (the blank itself, or a cell next to it in the flat sequence but in
\* another row) changes nothing: no state it leads to differs in board,
\* move counter, running flag, win message or best scores.
C5_NonAdjacentIsNoOp ==
    \A blank \in {indexOf(tiles, 0)} :
        \A idx \in Buttons :
            ~Adjacent(idx, blank, size) =>
                ~ENABLED (/\ Click(idx)
                          /\ <<tiles, moves, running, message, highScores>>'
                                # <<tiles, moves, running, message,
                                    highScores>>)

\* a running 3x3 game whose blank is at index 3, the start of a row: index
\* 2 is next to it in the flat sequence but in the row above
C5_Witness ==
    /\ size = 3
    /\ IsPermutation(tiles, size)
    /\ running
    /\ swaps < MaxMoves
    /\ indexOf(tiles, 0) = 3
    /\ ~Adjacent(2, 3, size)

\* C6: while running is false, no tile click and no key press leads to a
\* state that differs in board, move counter, win message, best scores or
\* running flag.
C6_NotRunningRejects ==
    ~running =>
        ~ENABLED (/\ \/ \E idx \in Buttons : Click(idx)
                     \/ \E key \in Keys : KeyDown(key)
                  /\ <<tiles, moves, message, highScores, running>>'
                        # <<tiles, moves, message, highScores, running>>)

\* C7: the best score stored for a dimension is absent when no game was won
\* on a board of that dimension and is otherwise the least move count
\* reported by the wins on boards of that dimension.
C7_BestIsMinOfReported ==
    highScores = bestReported

\* C8: an accepted move that produces the solved board shows a win message
\* whose elapsed time is the value of the elapsed-time counter at that
\* move.
C8_WinReportsElapsedTime ==
    [][WinningMove => (message' # <<>> /\ message'[2] = time)]_vars

\* the swap target the arrow keys select: the cell below / above / right of
\* / left of the blank
ArrowTarget(key) ==
    LET blank == indexOf(tiles, 0)
        r == blank \div size
        c == blank % size
    IN  CASE key = "ArrowUp" -> [r |-> r + 1, c |-> c]
          [] key = "ArrowDown" -> [r |-> r - 1, c |-> c]
          [] key = "ArrowLeft" -> [r |-> r, c |-> c + 1]
          [] key = "ArrowRight" -> [r |-> r, c |-> c - 1]

InGrid(t) == t.r >= 0 /\ t.r < size /\ t.c >= 0 /\ t.c < size

\* C9: while running on a board of the current dimension, an arrow key
\* whose cell (below / above / right of / left of the blank) is inside the
\* grid is accepted (up to the model's bound on the accepted moves) and
\* every state it leads to has that cell and the blank exchanged and the
\* move counter greater by 1; an arrow key whose cell is outside the grid
\* changes neither board, counter nor running flag.
C9_ArrowKeys ==
    (running /\ IsPermutation(tiles, size)) =>
        \A key \in Arrows :
        \A t \in {ArrowTarget(key)} :
        \A idx \in {t.r * size + t.c} :
        \A blank \in {indexOf(tiles, 0)} :
                IF InGrid(t)
                THEN /\ (swaps < MaxMoves /\ Handled)
                          => ENABLED (KeyDown(key) /\ tiles' # tiles)
                     /\ ~ENABLED (/\ KeyDown(key)
                                  /\ ~(/\ Exchanged(tiles, tiles', idx,
                                                    blank)
                                       /\ tiles'[idx + 1] = 0
                                       /\ moves' = moves + 1))
                ELSE ~ENABLED (/\ KeyDown(key)
                               /\ <<tiles, moves, running>>'
                                     # <<tiles, moves, running>>)

C10_Before == <<1, 2, 3, 4, 5, 6, 0, 7, 8>>
C10_After == <<1, 2, 3, 0, 5, 6, 4, 7, 8>>

\* C10: for n = 3, running, board [1,2,3,4,5,6,0,7,8] and move counter 0,
\* the directional move "up", made by the functions of that render, targets
\* index 3, is made (unless a bound of the model on the accepted moves or
\* on the races is reached) and gives board [1,2,3,0,5,6,4,7,8], move
\* counter 1, not solved and still running.
C10_UpScenario ==
    (size = 3 /\ running /\ tiles = C10_Before /\ moves = 0) =>
        /\ LET t == moveTarget(indexToPos(indexOf(tiles, 0), size), "up")
           IN  posToIndex(t.r, t.c, size) = 3
        /\ (swaps < MaxMoves /\ Handled)
              => ENABLED (moveByDirection(CurEnv, "up") /\ tiles' # tiles)
        /\ ~ENABLED (/\ moveByDirection(CurEnv, "up")
                     /\ ~(/\ tiles' = C10_After
                          /\ moves' = 1
                          /\ running'
                          /\ ~isSolved(tiles')))

\* the state the scenario ends in: the board of the scenario was reached by
\* one move, START set the counter to 0 and the move up was made
C10_Witness ==
    /\ size = 3
    /\ running
    /\ tiles = C10_After
    /\ moves = 1
    /\ swaps = 2

\* C11: in every state, the initial one included, the board is a sequence
\* of length size * size that holds each value of 0..size*size-1 exactly
\* once.
C11_BoardIsPermutation ==
    IsPermutation(tiles, size)

\* C12: in every state the move counter equals the number of moves
\* accepted since the most recent start, restart or dimension change.
C12_MovesCountAccepted ==
    moves = accepted

\* C13: START pressed on a solved board (the Won state) sets a newly
\* generated board (any board of the generator, each solvable and not
\* solved) and START pressed on an unsolved board leaves the board as it
\* is; in both cases running becomes true and the move counter and the
\* elapsed time become 0.  RESTART always sets a newly generated board and
\* sets running to true.
C13_StartAndRestart ==
    /\ ~ENABLED (/\ Start
                 /\ ~(/\ running'
                      /\ moves' = 0
                      /\ time' = 0
                      /\ IF isSolved(tiles)
                         THEN NewBoard(tiles', size)
                         ELSE tiles' = tiles))
    /\ Handled => \A b \in Generated[size] :
          /\ isSolved(tiles) => ENABLED (Start /\ tiles' = b)
          /\ ~isSolved(tiles) => ENABLED (Start /\ tiles' = tiles)
          /\ ENABLED (Restart /\ tiles' = b)
    /\ ~ENABLED (/\ Restart
                 /\ ~(running' /\ NewBoard(tiles', size)))

\* START was pressed in a 3x3 game whose board had taken a move: the board
\* was kept and the counters are 0
C13_Witness ==
    /\ size = 3
    /\ running
    /\ tiles = C10_Before
    /\ swaps = 1
    /\ moves = 0
    /\ time = 0
    /\ accepted = 0

\* C15: the elapsed time grows only while running is true (so not after a
\* win, until the next start or restart), and it is 0 after start, after
\* restart and after the reset that follows a change of dimension.
C15_TimeAdvancesOnlyRunning ==
    [][/\ time' > time => running
       /\ (Start \/ Restart) => time' = 0
       /\ (changed /\ Render) => time' = 0
      ]_vars

\* C18: once the board has been initialised (it is no longer the empty
\* array), it satisfies isSolvable for the current dimension in every
\* reachable state.
C18_BoardStaysSolvable ==
    tiles # <<>> => isSolvable(tiles, size)

\* C19: in every state, running implies that the board is not solved, and
\* the win message is present exactly when the board is solved; so exactly
\* one of Idle (not running, unsolved, no message), Running (running,
\* unsolved, no message) and Won (not running, solved, message) holds.
C19_IdleRunningWon ==
    LET Idle == ~running /\ ~isSolved(tiles) /\ message = <<>>
        Running == running /\ ~isSolved(tiles) /\ message = <<>>
        Won == ~running /\ isSolved(tiles) /\ message # <<>>
    IN  /\ running => ~isSolved(tiles)
        /\ message # <<>> <=> isSolved(tiles)
        /\ Idle \/ Running \/ Won
        /\ ~(Idle /\ Running) /\ ~(Idle /\ Won) /\ ~(Running /\ Won)

\* the Won state of a 3x3 game
C19_Witness ==
    /\ size = 3
    /\ isSolved(tiles)
    /\ message # <<>>
    /\ ~running
    /\ moves >= 1

\* C20: the level button of a dimension other than the current one is
\* accepted in any state and the render of the reset that follows it
\* leaves the component Idle with a newly generated board of that
\* dimension, running false, move counter 0, elapsed time 0, no win message
\* and the best scores unchanged; the button of the current dimension
\* changes nothing.
C20_DimensionChange ==
    /\ \A n \in Sizes :
          IF n = size
          THEN ~ENABLED (/\ SetSize(n)
                         /\ <<size, tiles, moves, time, running,
                              message, highScores>>'
                               # <<size, tiles, moves, time, running,
                                   message, highScores>>)
          ELSE Handled => ENABLED (SetSize(n) /\ size' = n)
    /\ changed =>
          /\ ENABLED Render
          /\ ~ENABLED (/\ Render
                       /\ ~(/\ NewBoard(tiles', size)
                            /\ ~running'
                            /\ moves' = 0
                            /\ time' = 0
                            /\ message' = <<>>
                            /\ highScores' = highScores))

----------------------------------------------------------------------------
(* Reachability by legal moves, for the solvability claim.  A board of     *)
(* dimension n is coded as the number whose base-n*n digits are its cells  *)
(* (cell 0 the lowest digit), so that the set of boards found so far is a  *)
(* set of integers.                                                        *)

\* the dimensions for which the whole set of boards is searched
SearchDims == {2, 3}

RECURSIVE Pow(_, _)
Pow(b, e) == IF e = 0 THEN 1 ELSE b * Pow(b, e - 1)

\* the place value of cell i in the code of a board of dimension n
Place == [n \in SearchDims |-> [i \in 0..(n * n - 1) |-> Pow(n * n, i)]]

\* the cell at 0-based index i of the board coded by c
Cell(c, i, n) == (c \div Place[n][i]) % (n * n)

RECURSIVE Code(_, _)
Code(arr, i) == IF i > Len(arr) THEN 0 ELSE arr[i] + Len(arr) * Code(arr, i + 1)

\* cells i and j are in the same row and adjacent columns, or in the same
\* column and adjacent rows
Orthogonal(i, j, n) ==
    \/ ((i \div n) = (j \div n) /\ (i - j = 1 \/ j - i = 1))
    \/ ((i % n) = (j % n) /\ (i - j = n \/ j - i = n))

\* a legal move: the blank, at index k of the board coded by c, exchanged
\* with the tile at the orthogonally adjacent index i
LegalMove(c, k, i, n) == c + Cell(c, i, n) * (Place[n][k] - Place[n][i])

\* every arrangement of 0..n*n-1 on the n*n cells
AllBoards(n) ==
    {[k \in 1..(n * n) |-> f[k] - 1] : f \in Permutations(1..(n * n))}

InitReach ==
    /\ size \in SearchDims
    /\ tiles = makeSolved(size)
    /\ moves = 0
    /\ time = 0
    /\ running = FALSE
    /\ message = <<>>
    /\ highScores = [d \in Sizes |-> null]
    /\ InitReact
    /\ InitHistory
    /\ reach = {Code(tiles, 1)}
    /\ frontier = [k \in 0..(size * size - 1) |->
                      IF k = indexOf(tiles, 0) THEN reach ELSE {}]
    /\ pc = "idle"

\* frontier[k] holds the unexpanded boards whose blank is at index k; a
\* step expands those of the lowest index k that has any
Expand ==
    /\ \E k \in DOMAIN frontier : frontier[k] # {}
    /\ LET lo == CHOOSE k \in DOMAIN frontier :
                    /\ frontier[k] # {}
                    /\ \A j \in 0..(k - 1) : frontier[j] = {}
           found == [i \in DOMAIN frontier |->
                        IF Orthogonal(i, lo, size)
                        THEN {LegalMove(c, lo, i, size) : c \in frontier[lo]}
                                 \ reach
                        ELSE {}]
       IN  /\ reach' = reach \cup UNION {found[i] : i \in DOMAIN frontier}
           /\ frontier' = [i \in DOMAIN frontier |->
                              IF i = lo THEN {} ELSE frontier[i] \cup found[i]]
    /\ UNCHANGED <<size, tiles, moves, time, running, message, highScores,
                   react, history, pc>>

\* the search has run and nothing is left to expand
Exhausted ==
    /\ DOMAIN frontier # {}
    /\ \A k \in DOMAIN frontier : frontier[k] = {}

SpecReach == InitReach /\ [][Expand]_vars

\* C2: isSolvable(board, n) is true exactly for the boards that legal moves
\* connect to the solved board: once the search from the solved board of
\* dimension 2 or 3 has nothing left to expand, every arrangement of the
\* cells satisfies isSolvable if and only if the search found it (and the
\* search found half of the arrangements).
C2_SolvableIffReachable ==
    Exhausted =>
        /\ \A b \in AllBoards(size) :
              isSolvable(b, size) <=> Code(b, 1) \in reach
        /\ 2 * Cardinality(reach) = Cardinality(AllBoards(size))

\* the search of dimension 2 has ended and found 12 of the 24 boards
C2_Witness ==
    /\ size = 2
    /\ Exhausted
    /\ Cardinality(reach) = 12

----------------------------------------------------------------------------
(* shuffleToSolvable (lines 54-66) run on its own, one step per iteration  *)
(* of its do-while loop, for the termination claims.                        *)

\* the values Math.random() takes in the free iterations of this run
GenValues == GridValues(GenGrid)

\* the arrays one iteration of the do-while loop can end with
Shuffles ==
    [n \in GenDims |->
        {FisherYates(makeSolved(n), n * n - 1, rs).arr :
            rs \in Draws(n * n - 1, GenFree[n], GenValues)}]

\* shuffleToSolvable(size) is called: `let arr` is not assigned yet
InitGen ==
    /\ size \in GenDims
    /\ tiles = <<>>
    /\ pc = "loop"
    /\ moves = 0
    /\ time = 0
    /\ running = FALSE
    /\ message = <<>>
    /\ highScores = [d \in Sizes |-> null]
    /\ InitReact
    /\ InitHistory
    /\ reach = {}
    /\ frontier = <<>>

\* one iteration (lines 57-64) that shuffles to p: the loop goes on when
\* its condition holds of p and returns p otherwise
Iterate(p) ==
    /\ pc = "loop"
    /\ p \in Shuffles[size]
    /\ tiles' = p
    /\ pc' = IF LoopAgain(p, size) THEN "loop" ELSE "done"
    /\ UNCHANGED <<size, moves, time, running, message, highScores, react,
                   history, reach, frontier>>

NextGen == \E n \in GenDims : \E p \in Shuffles[n] : Iterate(p)

SpecGen == InitGen /\ [][NextGen]_vars

\* fairness of the random shuffle: an array the shuffle can produce is
\* produced at some iteration if the loop goes on for ever
FairGen ==
    /\ SpecGen
    /\ \A n \in GenDims : \A p \in Shuffles[n] : WF_vars(Iterate(p))

\* C16: for every dimension n >= 2 the loop of the generator terminates
\* under fairness of the shuffle: eventually it has returned, and the
\* board it returned is solvable and not solved.
C16_GeneratorTerminates ==
    size >= 2 => <>(pc = "done" /\ isSolvable(tiles, size) /\ ~isSolved(tiles))

\* the generator has returned a board of dimension 3
C16_Witness ==
    /\ pc = "done"
    /\ size = 3
    /\ FreshBoard(tiles, 3)

\* C17: for n = 1 the generator never returns: the only array an iteration
\* produces is [0], which is solvable and solved, so the loop condition
\* holds of it.
C17_DimensionOneLoops ==
    size = 1 =>
        /\ pc = "loop"
        /\ Shuffles[1] = {<<0>>}
        /\ \A p \in Shuffles[1] : isSolvable(p, 1) /\ isSolved(p)
        /\ ~ENABLED (NextGen /\ pc' # "loop")

\* an iteration for n = 1 has run and the loop is still going
C17_Witness ==
    /\ size = 1
    /\ tiles = <<0>>
    /\ pc = "loop"

\* C14: isSolved is true of an arrangement of the cells exactly when it is
\* the sequence makeSolved builds for the dimension (1, 2, ..., n*n-1, 0),
\* and it is false of the empty board; checked over all arrangements of
\* dimension 2 and 3, once the search has listed them.
C14_IsSolvedIffCanonical ==
    /\ ~isSolved(<<>>)
    /\ Exhausted =>
           \A solved \in {makeSolved(size)} :
               /\ \A i \in 1..(size * size - 1) : solved[i] = i
               /\ solved[size * size] = 0
               /\ \A b \in AllBoards(size) : isSolved(b) <=> b = solved

\* the search of dimension 2 has ended; its first board is the solved one
C14_Witness ==
    /\ size = 2
    /\ Exhausted
    /\ isSolved(tiles)
    /\ ~isSolved(<<1, 2, 0, 3>>)

=============================================================================
